---- MODULE Spec2Model ----
(***************************************************************************)
(* Model of level1/gym_management.c: one binary search tree, keyed by a    *)
(* composite string key, that stores events and tickets; the catalog       *)
(* operations of the menus (addEvent, findEvent, removeEvent, printEvents, *)
(* addTicket, findTicket, printTicketsForEvent) and the exit path.         *)
(*                                                                         *)
(* Strings that the program compares or parses (keys, seats) are sequences *)
(* of character codes, so that strcmp, sprintf("%d") and atoi are computed *)
(* as the C library computes them.  Text that the program only stores and  *)
(* prints (title, date, time, afm, names) is kept as opaque strings.       *)
(***************************************************************************)
EXTENDS Integers, Sequences, FiniteSets, TLC

\* ------------------------------------------------------------------------
\* Bounds of the model
\* ------------------------------------------------------------------------

\* Number of TreeNode cells malloc can hand out before the model stops adding.
MaxNodes == 4

\* ------------------------------------------------------------------------
\* Characters and C strings
\* ------------------------------------------------------------------------

\* Character codes (ASCII) of the characters the program writes or tests.
Ch == [E |-> 69, T |-> 84, us |-> 95, zero |-> 48, nine |-> 57,
       a |-> 97, h |-> 104, A |-> 65, Z |-> 90,
       minus |-> 45, plus |-> 43, space |-> 32, tab |-> 9, cr |-> 13]

\* strcmp: byte-wise comparison up to the terminating NUL; the shorter string
\* is smaller when it is a prefix of the longer one.  Result is the sign.
RECURSIVE strcmp(_, _)
strcmp(s, t) ==
    IF s = <<>> /\ t = <<>> THEN 0
    ELSE IF s = <<>> THEN -1
    ELSE IF t = <<>> THEN 1
    ELSE IF Head(s) < Head(t) THEN -1
    ELSE IF Head(s) > Head(t) THEN 1
    ELSE strcmp(Tail(s), Tail(t))

\* The decimal digits of a natural number, most significant first.
RECURSIVE Digits(_)
Digits(n) ==
    IF n < 10 THEN <<Ch.zero + n>>
    ELSE Digits(n \div 10) \o <<Ch.zero + (n % 10)>>

\* sprintf("%d", n)
FormatInt(n) == IF n < 0 THEN <<Ch.minus>> \o Digits(-n) ELSE Digits(n)

\* isspace / isdigit / tolower of <ctype.h> in the C locale.
IsSpace(c) == c = Ch.space \/ (c >= Ch.tab /\ c <= Ch.cr)
IsDigit(c) == c >= Ch.zero /\ c <= Ch.nine
ToLower(c) == IF c >= Ch.A /\ c <= Ch.Z THEN c + 32 ELSE c

\* The value of the longest prefix of s made of digits, accumulated from acc.
RECURSIVE DigitPrefixValue(_, _)
DigitPrefixValue(s, acc) ==
    IF s = <<>> \/ ~IsDigit(Head(s)) THEN acc
    ELSE DigitPrefixValue(Tail(s), acc * 10 + (Head(s) - Ch.zero))

RECURSIVE SkipSpace(_)
SkipSpace(s) == IF s # <<>> /\ IsSpace(Head(s)) THEN SkipSpace(Tail(s)) ELSE s

\* atoi: leading white space, an optional sign, then digits; 0 if no digits.
atoi(s) ==
    LET t == SkipSpace(s)
    IN  IF t # <<>> /\ Head(t) = Ch.minus THEN -DigitPrefixValue(Tail(t), 0)
        ELSE IF t # <<>> /\ Head(t) = Ch.plus THEN DigitPrefixValue(Tail(t), 0)
        ELSE DigitPrefixValue(t, 0)

\* validateSeat: TRUE for the C result 1, FALSE for 0.
validateSeat(seat) ==
    IF Len(seat) < 2 \/ Len(seat) > 4 THEN FALSE
    ELSE LET section == ToLower(seat[1])
         IN  IF section < Ch.a \/ section > Ch.h THEN FALSE
             ELSE LET number == atoi(SubSeq(seat, 2, Len(seat)))
                  IN  ~(number < 1 \/ number > 500)

\* sprintf(key, "E_%d", code)
EventKey(code) == <<Ch.E, Ch.us>> \o FormatInt(code)

\* The ticket key with a slip: the event code is left out of the key.
TicketKey_noEventCode(eventCode, seat) == <<Ch.T, Ch.us>> \o seat

\* sprintf(key, "T_%d_%s", eventCode, seat)
TicketKey(eventCode, seat) ==
    <<Ch.T, Ch.us>> \o FormatInt(eventCode) \o <<Ch.us>> \o seat

\* ------------------------------------------------------------------------
\* The heap of TreeNode cells
\* ------------------------------------------------------------------------

NULL == 0
NodeIds == 1..MaxNodes

\* NodeType
EVENT_NODE == "EVENT_NODE"
TICKET_NODE == "TICKET_NODE"

\* A cell that malloc has not handed out, or that free has taken back.
FreeCell == [key |-> <<>>, type |-> "FREE", data |-> [none |-> 0],
             left |-> NULL, right |-> NULL]

IsAllocated(h, n) == n \in DOMAIN h /\ h[n] # FreeCell /\ h[n].type # "DOUBLE_FREED"
HasFreeCell(h) == \E n \in DOMAIN h : h[n] = FreeCell

\* malloc(sizeof(TreeNode)): the lowest cell that is not in use.
malloc(h) == CHOOSE n \in DOMAIN h : h[n] = FreeCell /\ \A m \in 1..(n - 1) : h[m] # FreeCell

\* A cell handed to free while it was not in use: freed a second time.
DoubleFreed == [key |-> <<>>, type |-> "DOUBLE_FREED", data |-> [none |-> 0],
                left |-> NULL, right |-> NULL]

\* free(node): the cell is taken back; freeing a cell that is not in use is
\* recorded in the cell, which is never handed out again.
free(h, n) == [h EXCEPT ![n] = IF h[n] = FreeCell \/ h[n] = DoubleFreed
                                THEN DoubleFreed ELSE FreeCell]

\* createNode with a slip: the tag is not stored, so every node reads as the
\* first enumerator, EVENT_NODE.
createNode_tagNotSet(h, key, type, data) ==
    LET newNode == malloc(h)
    IN  [h |-> [h EXCEPT ![newNode] = [key |-> key, type |-> EVENT_NODE, data |-> data,
                                       left |-> NULL, right |-> NULL]],
         ret |-> newNode]

\* createNode: a fresh cell with the key, the tag, a copy of the payload and
\* two null links.  Returns the new heap and the pointer to the cell.
createNode(h, key, type, data) ==
    LET newNode == malloc(h)
    IN  [h |-> [h EXCEPT ![newNode] = [key |-> key, type |-> type, data |-> data,
                                       left |-> NULL, right |-> NULL]],
         ret |-> newNode]

RECURSIVE insertNode(_, _, _, _, _)

\* insertNode with a slip: a key that is already there gets the new record.
insertNode_overwrites(h, root, key, type, data) ==
    IF root = NULL THEN createNode(h, key, type, data)
    ELSE LET cmp == strcmp(key, h[root].key)
         IN  IF cmp < 0 THEN
                 LET r == insertNode(h, h[root].left, key, type, data)
                 IN  [h |-> [r.h EXCEPT ![root].left = r.ret], ret |-> root]
             ELSE IF cmp > 0 THEN
                 LET r == insertNode(h, h[root].right, key, type, data)
                 IN  [h |-> [r.h EXCEPT ![root].right = r.ret], ret |-> root]
             ELSE [h |-> [h EXCEPT ![root].type = type, ![root].data = data],
                   ret |-> root]

\* insertNode with a slip: a smaller key is hung on the left link at once,
\* whatever that link pointed to.
insertNode_noDescentLeft(h, root, key, type, data) ==
    IF root = NULL THEN createNode(h, key, type, data)
    ELSE LET cmp == strcmp(key, h[root].key)
         IN  IF cmp < 0 THEN
                 LET r == createNode(h, key, type, data)
                 IN  [h |-> [r.h EXCEPT ![root].left = r.ret], ret |-> root]
             ELSE IF cmp > 0 THEN
                 LET r == insertNode(h, h[root].right, key, type, data)
                 IN  [h |-> [r.h EXCEPT ![root].right = r.ret], ret |-> root]
             ELSE [h |-> h, ret |-> root]

\* insertNode: returns the new heap and the (unchanged or new) subtree root.
insertNode(h, root, key, type, data) ==
    IF root = NULL THEN createNode(h, key, type, data)
    ELSE LET cmp == strcmp(key, h[root].key)
         IN  IF cmp < 0 THEN
                 LET r == insertNode(h, h[root].left, key, type, data)
                 IN  [h |-> [r.h EXCEPT ![root].left = r.ret], ret |-> root]
             ELSE IF cmp > 0 THEN
                 LET r == insertNode(h, h[root].right, key, type, data)
                 IN  [h |-> [r.h EXCEPT ![root].right = r.ret], ret |-> root]
             ELSE [h |-> h, ret |-> root]

\* searchNode: the pointer to the node with the key, or NULL.
RECURSIVE searchNode(_, _, _)
searchNode(h, root, key) ==
    IF root = NULL \/ strcmp(h[root].key, key) = 0 THEN root
    ELSE IF strcmp(key, h[root].key) < 0 THEN searchNode(h, h[root].left, key)
    ELSE searchNode(h, h[root].right, key)

\* findMin: the leftmost node of the subtree (NULL for the empty subtree).
RECURSIVE findMin(_, _)

\* findMin with a slip: it does not go down to the left.
findMin_noDescent(h, node) == node

findMin(h, node) ==
    IF node # NULL /\ h[node].left # NULL THEN findMin(h, h[node].left)
    ELSE node

RECURSIVE deleteNode(_, _, _)

\* deleteNode with a slip: in the two-children case the successor's content is
\* copied into the node but the successor's own node is not removed.
deleteNode_keepsSuccessor(h, root, key) ==
    IF root = NULL THEN [h |-> h, ret |-> root]
    ELSE LET cmp == strcmp(key, h[root].key)
         IN  IF cmp < 0 THEN
                 LET r == deleteNode(h, h[root].left, key)
                 IN  [h |-> [r.h EXCEPT ![root].left = r.ret], ret |-> root]
             ELSE IF cmp > 0 THEN
                 LET r == deleteNode(h, h[root].right, key)
                 IN  [h |-> [r.h EXCEPT ![root].right = r.ret], ret |-> root]
             ELSE IF h[root].left = NULL THEN
                 [h |-> free(h, root), ret |-> h[root].right]
             ELSE IF h[root].right = NULL THEN
                 [h |-> free(h, root), ret |-> h[root].left]
             ELSE
                 LET temp == findMin(h, h[root].right)
                 IN  [h |-> [h EXCEPT ![root].key = h[temp].key,
                                      ![root].type = h[temp].type,
                                      ![root].data = h[temp].data],
                      ret |-> root]

\* deleteNode with a slip: in the two-children case the successor's key and
\* tag are copied into the node, its payload is not.
deleteNode_payloadNotCopied(h, root, key) ==
    IF root = NULL THEN [h |-> h, ret |-> root]
    ELSE LET cmp == strcmp(key, h[root].key)
         IN  IF cmp < 0 THEN
                 LET r == deleteNode(h, h[root].left, key)
                 IN  [h |-> [r.h EXCEPT ![root].left = r.ret], ret |-> root]
             ELSE IF cmp > 0 THEN
                 LET r == deleteNode(h, h[root].right, key)
                 IN  [h |-> [r.h EXCEPT ![root].right = r.ret], ret |-> root]
             ELSE IF h[root].left = NULL THEN
                 [h |-> free(h, root), ret |-> h[root].right]
             ELSE IF h[root].right = NULL THEN
                 [h |-> free(h, root), ret |-> h[root].left]
             ELSE
                 LET temp == findMin(h, h[root].right)
                     h1 == [h EXCEPT ![root].key = h[temp].key,
                                     ![root].type = h[temp].type]
                     r == deleteNode(h1, h1[root].right, h1[temp].key)
                 IN  [h |-> [r.h EXCEPT ![root].right = r.ret], ret |-> root]

\* deleteNode with a slip: a leaf reached with another key is freed.
deleteNode_dropsLeafOnMiss(h, root, key) ==
    IF root = NULL THEN [h |-> h, ret |-> root]
    ELSE LET cmp == strcmp(key, h[root].key)
         IN  IF h[root].left = NULL /\ h[root].right = NULL THEN
                 [h |-> free(h, root), ret |-> NULL]
             ELSE IF cmp < 0 THEN
                 LET r == deleteNode(h, h[root].left, key)
                 IN  [h |-> [r.h EXCEPT ![root].left = r.ret], ret |-> root]
             ELSE IF cmp > 0 THEN
                 LET r == deleteNode(h, h[root].right, key)
                 IN  [h |-> [r.h EXCEPT ![root].right = r.ret], ret |-> root]
             ELSE IF h[root].left = NULL THEN
                 [h |-> free(h, root), ret |-> h[root].right]
             ELSE IF h[root].right = NULL THEN
                 [h |-> free(h, root), ret |-> h[root].left]
             ELSE
                 LET temp == findMin(h, h[root].right)
                     h1 == [h EXCEPT ![root].key = h[temp].key,
                                     ![root].type = h[temp].type,
                                     ![root].data = h[temp].data]
                     r == deleteNode(h1, h1[root].right, h1[temp].key)
                 IN  [h |-> [r.h EXCEPT ![root].right = r.ret], ret |-> root]

\* deleteNode with a slip: in the two-children case the successor's tag and
\* payload are copied into the node, its key is not.
deleteNode_keyNotCopied(h, root, key) ==
    IF root = NULL THEN [h |-> h, ret |-> root]
    ELSE LET cmp == strcmp(key, h[root].key)
         IN  IF cmp < 0 THEN
                 LET r == deleteNode(h, h[root].left, key)
                 IN  [h |-> [r.h EXCEPT ![root].left = r.ret], ret |-> root]
             ELSE IF cmp > 0 THEN
                 LET r == deleteNode(h, h[root].right, key)
                 IN  [h |-> [r.h EXCEPT ![root].right = r.ret], ret |-> root]
             ELSE IF h[root].left = NULL THEN
                 [h |-> free(h, root), ret |-> h[root].right]
             ELSE IF h[root].right = NULL THEN
                 [h |-> free(h, root), ret |-> h[root].left]
             ELSE
                 LET temp == findMin(h, h[root].right)
                     h1 == [h EXCEPT ![root].type = h[temp].type,
                                     ![root].data = h[temp].data]
                     r == deleteNode(h1, h1[root].right, h1[temp].key)
                 IN  [h |-> [r.h EXCEPT ![root].right = r.ret], ret |-> root]

\* deleteNode: returns the new heap and the new subtree root.
deleteNode(h, root, key) ==
    IF root = NULL THEN [h |-> h, ret |-> root]
    ELSE LET cmp == strcmp(key, h[root].key)
         IN  IF cmp < 0 THEN
                 LET r == deleteNode(h, h[root].left, key)
                 IN  [h |-> [r.h EXCEPT ![root].left = r.ret], ret |-> root]
             ELSE IF cmp > 0 THEN
                 LET r == deleteNode(h, h[root].right, key)
                 IN  [h |-> [r.h EXCEPT ![root].right = r.ret], ret |-> root]
             ELSE IF h[root].left = NULL THEN
                 [h |-> free(h, root), ret |-> h[root].right]
             ELSE IF h[root].right = NULL THEN
                 [h |-> free(h, root), ret |-> h[root].left]
             ELSE
                 LET temp == findMin(h, h[root].right)
                     h1 == [h EXCEPT ![root].key = h[temp].key,
                                     ![root].type = h[temp].type,
                                     ![root].data = h[temp].data]
                     r == deleteNode(h1, h1[root].right, h1[temp].key)
                 IN  [h |-> [r.h EXCEPT ![root].right = r.ret], ret |-> root]

\* freeTree: post-order free of every node of the subtree.
RECURSIVE freeTree(_, _)

\* freeTree with a slip: the right subtree is not freed.
freeTree_leaksRight(h, root) ==
    IF root = NULL THEN h
    ELSE free(freeTree(h, h[root].left), root)

freeTree(h, root) ==
    IF root = NULL THEN h
    ELSE free(freeTree(freeTree(h, h[root].left), h[root].right), root)

\* What inorderTraversalPrint writes for one node: the fields of its payload.
PrintedRecord(h, n) == [type |-> h[n].type, data |-> h[n].data]

\* inorderTraversalPrint: the sequence of records written, left, self, right.
\* A node is written when its tag is filterType and, for tickets, when
\* eventCodeFilter is -1 or equals the ticket's eventCode.
RECURSIVE inorderTraversalPrint(_, _, _, _)

\* inorderTraversalPrint with a slip: the node is written before its left
\* subtree is visited.
inorderTraversalPrint_selfFirst(h, root, filterType, eventCodeFilter) ==
    IF root = NULL THEN <<>>
    ELSE (IF h[root].type = filterType
          THEN IF filterType = EVENT_NODE THEN <<PrintedRecord(h, root)>>
               ELSE IF eventCodeFilter = -1
                       \/ h[root].data.eventCode = eventCodeFilter
                    THEN <<PrintedRecord(h, root)>>
                    ELSE <<>>
          ELSE <<>>)
         \o inorderTraversalPrint(h, h[root].left, filterType, eventCodeFilter)
         \o inorderTraversalPrint(h, h[root].right, filterType, eventCodeFilter)

inorderTraversalPrint(h, root, filterType, eventCodeFilter) ==
    IF root = NULL THEN <<>>
    ELSE inorderTraversalPrint(h, h[root].left, filterType, eventCodeFilter)
         \o (IF h[root].type = filterType
             THEN IF filterType = EVENT_NODE THEN <<PrintedRecord(h, root)>>
                  ELSE IF eventCodeFilter = -1
                          \/ h[root].data.eventCode = eventCodeFilter
                       THEN <<PrintedRecord(h, root)>>
                       ELSE <<>>
             ELSE <<>>)
         \o inorderTraversalPrint(h, h[root].right, filterType, eventCodeFilter)

RECURSIVE collectTicketKeysForEvent(_, _, _, _)

\* collectTicketKeysForEvent with a slip: the right subtree is not visited.
collectTicketKeysForEvent_leftOnly(h, root, eventCode, acc) ==
    IF root = NULL THEN acc
    ELSE LET a1 == collectTicketKeysForEvent(h, h[root].left, eventCode, acc)
         IN  IF h[root].type = TICKET_NODE /\ h[root].data.eventCode = eventCode
             THEN [keys |-> Append(a1.keys, h[root].key),
                   count |-> a1.count + 1,
                   capacity |-> IF a1.count >= a1.capacity
                                THEN a1.capacity * 2 ELSE a1.capacity]
             ELSE a1

\* collectTicketKeysForEvent with a slip: the array is not enlarged when it
\* is full.
collectTicketKeysForEvent_noGrowth(h, root, eventCode, acc) ==
    IF root = NULL THEN acc
    ELSE LET a1 == collectTicketKeysForEvent(h, h[root].left, eventCode, acc)
             a2 == IF h[root].type = TICKET_NODE /\ h[root].data.eventCode = eventCode
                   THEN [keys |-> Append(a1.keys, h[root].key),
                         count |-> a1.count + 1,
                         capacity |-> a1.capacity]
                   ELSE a1
         IN  collectTicketKeysForEvent(h, h[root].right, eventCode, a2)

\* collectTicketKeysForEvent: acc is [keys, count, capacity]; the keys of the
\* ticket nodes of the event are appended in traversal order, the capacity of
\* the array doubling when it is full.
collectTicketKeysForEvent(h, root, eventCode, acc) ==
    IF root = NULL THEN acc
    ELSE LET a1 == collectTicketKeysForEvent(h, h[root].left, eventCode, acc)
             a2 == IF h[root].type = TICKET_NODE /\ h[root].data.eventCode = eventCode
                   THEN [keys |-> Append(a1.keys, h[root].key),
                         count |-> a1.count + 1,
                         capacity |-> IF a1.count >= a1.capacity
                                      THEN a1.capacity * 2 ELSE a1.capacity]
                   ELSE a1
         IN  collectTicketKeysForEvent(h, h[root].right, eventCode, a2)

\* ------------------------------------------------------------------------
\* Inputs the menus can be given
\* ------------------------------------------------------------------------

\* Seat strings as typed: "c149", "B2" (valid), "z9" (section out of a-h),
\* "a501" (number above 500).
Seat_c149 == <<99, 49, 52, 57>>
Seat_B2 == <<66, 50>>
Seat_z9 == <<122, 57>>
Seat_a501 == <<97, 53, 48, 49>>
SeatInputs == {Seat_c149, Seat_B2, Seat_z9, Seat_a501}

\* Values getIntegerInput can return for a code: -1 (no number read) and two
\* codes whose textual order ("10" < "9") is the reverse of their numeric one.
CodeInputs == {-1, 9, 10}

\* The text fields of an event and of a ticket holder, which the handlers read
\* only after their checks have passed.
EventInputs == {[title |-> "Yoga", date |-> "01/01/2025", time |-> "10:00"],
                [title |-> "Boxing", date |-> "15/06/2025", time |-> "18:30"]}
HolderInputs == {[afm |-> "123456789", firstName |-> "Ann", lastName |-> "Lee"],
                 [afm |-> "987654321", firstName |-> "Bob", lastName |-> "Ray"]}

\* The holders tried for a seat: both for c149, one for the other seats (this
\* keeps the number of distinct trees small; it restricts inputs only).
HoldersFor(seat) ==
    IF seat = Seat_c149 THEN HolderInputs
    ELSE {w \in HolderInputs : w.firstName = "Ann"}

\* Event newEvent / Ticket newTicket as the handlers fill them.
NewEvent(code, ev) ==
    [date |-> ev.date, time |-> ev.time, code |-> code, title |-> ev.title]
NewTicket(eventCode, seat, who) ==
    [seat |-> seat, afm |-> who.afm, firstName |-> who.firstName,
     lastName |-> who.lastName, eventCode |-> eventCode]

\* ------------------------------------------------------------------------
\* State
\* ------------------------------------------------------------------------

VARIABLES
    heap,          \* the TreeNode cells: NodeIds -> cell or FreeCell
    root,          \* main's TreeNode *root
    pc,            \* "menu" (a menu waits for a choice), "removeEvent" (inside its
                   \* deletion loop), "returned" (a handler is back), "exited"
    code,          \* removeEvent: the code read
    keysToDelete,  \* removeEvent: the collected ticket keys
    count,         \* removeEvent: number of collected keys
    capacity,      \* removeEvent: size of the keysToDelete array
    i,             \* removeEvent: loop index
    entry,         \* history: heap and root when the current handler was entered
    out            \* what the last operation was given and what it wrote

vars == <<heap, root, pc, code, keysToDelete, count, capacity, i, entry, out>>
locals == <<code, keysToDelete, count, capacity, i, entry>>

\* What is known of one operation once it is back: its name, the code, seat
\* and key it worked on, the record it handed to insertNode (none: <<>>), the
\* message it printed, the ticket count it printed and the records it printed.
Out(op, c, seat, key, msg, n, printed) ==
    [op |-> op, code |-> c, seat |-> seat, key |-> key, given |-> <<>>,
     msg |-> msg, count |-> n, printed |-> printed]
Given(type, data) == <<[type |-> type, data |-> data]>>

\* The nodes reachable from a subtree root.
RECURSIVE NodesOf(_, _)
NodesOf(h, r) ==
    IF r = NULL THEN {}
    ELSE NodesOf(h, h[r].left) \cup {r} \cup NodesOf(h, h[r].right)

\* The records (key, tag, payload) held by the tree.
RecordOf(h, n) == [key |-> h[n].key, type |-> h[n].type, data |-> h[n].data]
Records(h, r) == {RecordOf(h, n) : n \in NodesOf(h, r)}

\* TreeNode *root = NULL
Init ==
    /\ heap = [n \in NodeIds |-> FreeCell]
    /\ root = NULL
    /\ pc = "menu"
    /\ code = -1
    /\ keysToDelete = <<>>
    /\ count = 0
    /\ capacity = 0
    /\ i = 0
    /\ entry = [heap |-> [n \in NodeIds |-> FreeCell], root |-> NULL]
    /\ out = Out("menu", -1, <<>>, <<>>, "", 0, <<>>)

\* ------------------------------------------------------------------------
\* Event management
\* ------------------------------------------------------------------------

\* addEvent with a slip: the check for an existing event is missing.
addEvent_noDuplicateCheck(c) ==
    /\ pc = "menu"
    /\ LET key == EventKey(c)
       IN  \/ /\ c < 0
              /\ out' = Out("addEvent", c, <<>>, <<>>, "InvalidCode", 0, <<>>)
              /\ UNCHANGED <<heap, root>>
           \/ /\ ~(c < 0)
              /\ searchNode(heap, root, key) = NULL => HasFreeCell(heap)
              /\ \E ev \in EventInputs :
                    LET newEvent == NewEvent(c, ev)
                        r == insertNode(heap, root, key, EVENT_NODE, newEvent)
                    IN  /\ heap' = r.h
                        /\ root' = r.ret
                        /\ out' = [Out("addEvent", c, <<>>, key, "Added", 0, <<>>)
                                   EXCEPT !.given = Given(EVENT_NODE, newEvent)]
    /\ pc' = "returned"
    /\ UNCHANGED locals

addEvent(c) ==
    /\ pc = "menu"
    /\ LET key == EventKey(c)
       IN  \/ /\ c < 0
              /\ out' = Out("addEvent", c, <<>>, <<>>, "InvalidCode", 0, <<>>)
              /\ UNCHANGED <<heap, root>>
           \/ /\ ~(c < 0)
              /\ searchNode(heap, root, key) # NULL
              /\ out' = Out("addEvent", c, <<>>, key, "DuplicateKey", 0, <<>>)
              /\ UNCHANGED <<heap, root>>
           \/ /\ ~(c < 0)
              /\ ~(searchNode(heap, root, key) # NULL)
              /\ HasFreeCell(heap)
              /\ \E ev \in EventInputs :
                    LET newEvent == NewEvent(c, ev)
                        r == insertNode(heap, root, key, EVENT_NODE, newEvent)
                    IN  /\ heap' = r.h
                        /\ root' = r.ret
                        /\ out' = [Out("addEvent", c, <<>>, key, "Added", 0, <<>>)
                                   EXCEPT !.given = Given(EVENT_NODE, newEvent)]
    /\ pc' = "returned"
    /\ UNCHANGED locals

findEvent(c) ==
    /\ pc = "menu"
    /\ LET key == EventKey(c)
           result == searchNode(heap, root, key)
       IN  IF c < 0
           THEN out' = Out("findEvent", c, <<>>, <<>>, "InvalidCode", 0, <<>>)
           ELSE IF result # NULL
           THEN out' = Out("findEvent", c, <<>>, key, "Found", 0,
                           inorderTraversalPrint(heap, result, EVENT_NODE, -1))
           ELSE out' = Out("findEvent", c, <<>>, key, "NotFound", 0, <<>>)
    /\ pc' = "returned"
    /\ UNCHANGED <<heap, root, locals>>

\* removeEvent with a slip: the check that the event exists is missing.
removeEvent_noExistenceCheck(c) ==
    /\ pc = "menu"
    /\ LET eventKey == EventKey(c)
           acc == collectTicketKeysForEvent(heap, root, c,
                      [keys |-> <<>>, count |-> 0, capacity |-> 10])
       IN  \/ /\ c < 0
              /\ out' = Out("removeEvent", c, <<>>, <<>>, "InvalidCode", 0, <<>>)
              /\ pc' = "returned"
              /\ UNCHANGED locals
           \/ /\ ~(c < 0)
              /\ code' = c
              /\ keysToDelete' = acc.keys
              /\ count' = acc.count
              /\ capacity' = acc.capacity
              /\ i' = 0
              /\ UNCHANGED entry
              /\ pc' = "removeEvent"
              /\ out' = Out("removeEvent", c, <<>>, eventKey, "Deleting", acc.count, <<>>)
    /\ UNCHANGED <<heap, root>>

\* removeEvent up to the start of its loop: the checks and the collection.
removeEvent(c) ==
    /\ pc = "menu"
    /\ LET eventKey == EventKey(c)
           acc == collectTicketKeysForEvent(heap, root, c,
                      [keys |-> <<>>, count |-> 0, capacity |-> 10])
       IN  \/ /\ c < 0
              /\ out' = Out("removeEvent", c, <<>>, <<>>, "InvalidCode", 0, <<>>)
              /\ pc' = "returned"
              /\ UNCHANGED locals
           \/ /\ ~(c < 0)
              /\ searchNode(heap, root, eventKey) = NULL
              /\ out' = Out("removeEvent", c, <<>>, eventKey, "UnknownEvent", 0, <<>>)
              /\ pc' = "returned"
              /\ UNCHANGED locals
           \/ /\ ~(c < 0)
              /\ ~(searchNode(heap, root, eventKey) = NULL)
              /\ code' = c
              /\ keysToDelete' = acc.keys
              /\ count' = acc.count
              /\ capacity' = acc.capacity
              /\ i' = 0
              /\ UNCHANGED entry
              /\ pc' = "removeEvent"
              /\ out' = Out("removeEvent", c, <<>>, eventKey, "Deleting", acc.count, <<>>)
    /\ UNCHANGED <<heap, root>>

\* One iteration of the loop of removeEvent with a slip: the loop goes on
\* without deleting the key.
removeEvent_ticket_skips ==
    /\ pc = "removeEvent"
    /\ i < count
    /\ i' = i + 1
    /\ UNCHANGED <<heap, root, pc, code, keysToDelete, count, capacity, entry, out>>

\* One iteration of the loop of removeEvent: delete keysToDelete[i].
removeEvent_ticket ==
    /\ pc = "removeEvent"
    /\ i < count
    /\ LET r == deleteNode(heap, root, keysToDelete[i + 1])
       IN  /\ heap' = r.h
           /\ root' = r.ret
    /\ i' = i + 1
    /\ UNCHANGED <<pc, code, keysToDelete, count, capacity, entry, out>>

\* The end of removeEvent with a slip: the event is deleted without waiting
\* for the loop to be over.
removeEvent_event_early ==
    /\ pc = "removeEvent"
    /\ LET r == deleteNode(heap, root, EventKey(code))
       IN  /\ heap' = r.h
           /\ root' = r.ret
    /\ out' = Out("removeEvent", code, <<>>, EventKey(code), "Deleted", count, <<>>)
    /\ pc' = "returned"
    /\ code' = -1
    /\ keysToDelete' = <<>>
    /\ count' = 0
    /\ capacity' = 0
    /\ i' = 0
    /\ UNCHANGED entry

\* The end of removeEvent: the loop is over, delete the event itself.
removeEvent_event ==
    /\ pc = "removeEvent"
    /\ ~(i < count)
    /\ LET r == deleteNode(heap, root, EventKey(code))
       IN  /\ heap' = r.h
           /\ root' = r.ret
    /\ out' = Out("removeEvent", code, <<>>, EventKey(code), "Deleted", count, <<>>)
    /\ pc' = "returned"
    /\ code' = -1
    /\ keysToDelete' = <<>>
    /\ count' = 0
    /\ capacity' = 0
    /\ i' = 0
    /\ UNCHANGED entry

printEvents ==
    /\ pc = "menu"
    /\ out' = Out("printEvents", -1, <<>>, <<>>, "Listed", 0,
                  inorderTraversalPrint(heap, root, EVENT_NODE, -1))
    /\ pc' = "returned"
    /\ UNCHANGED <<heap, root, locals>>

\* ------------------------------------------------------------------------
\* Ticket management
\* ------------------------------------------------------------------------

\* addTicket with a slip: the check that the event exists is missing.
addTicket_noEventCheck(c, seat) ==
    /\ pc = "menu"
    /\ LET key == TicketKey(c, seat)
       IN  \/ /\ c < 0
              /\ out' = Out("addTicket", c, <<>>, <<>>, "InvalidCode", 0, <<>>)
              /\ UNCHANGED <<heap, root>>
           \/ /\ ~(c < 0)
              /\ ~validateSeat(seat)
              /\ out' = Out("addTicket", c, seat, <<>>, "InvalidSeat", 0, <<>>)
              /\ UNCHANGED <<heap, root>>
           \/ /\ ~(c < 0)
              /\ validateSeat(seat)
              /\ searchNode(heap, root, key) # NULL
              /\ out' = Out("addTicket", c, seat, key, "SeatTaken", 0, <<>>)
              /\ UNCHANGED <<heap, root>>
           \/ /\ ~(c < 0)
              /\ validateSeat(seat)
              /\ ~(searchNode(heap, root, key) # NULL)
              /\ HasFreeCell(heap)
              /\ \E who \in HoldersFor(seat) :
                    LET newTicket == NewTicket(c, seat, who)
                        r == insertNode(heap, root, key, TICKET_NODE, newTicket)
                    IN  /\ heap' = r.h
                        /\ root' = r.ret
                        /\ out' = [Out("addTicket", c, seat, key, "Issued", 0, <<>>)
                                   EXCEPT !.given = Given(TICKET_NODE, newTicket)]
    /\ pc' = "returned"
    /\ UNCHANGED locals

\* addTicket with a slip: the check that the seat is free is missing.
addTicket_noSeatCheck(c, seat) ==
    /\ pc = "menu"
    /\ LET eventKey == EventKey(c)
           key == TicketKey(c, seat)
       IN  \/ /\ c < 0
              /\ out' = Out("addTicket", c, <<>>, <<>>, "InvalidCode", 0, <<>>)
              /\ UNCHANGED <<heap, root>>
           \/ /\ ~(c < 0)
              /\ searchNode(heap, root, eventKey) = NULL
              /\ out' = Out("addTicket", c, <<>>, <<>>, "UnknownEvent", 0, <<>>)
              /\ UNCHANGED <<heap, root>>
           \/ /\ ~(c < 0)
              /\ ~(searchNode(heap, root, eventKey) = NULL)
              /\ ~validateSeat(seat)
              /\ out' = Out("addTicket", c, seat, <<>>, "InvalidSeat", 0, <<>>)
              /\ UNCHANGED <<heap, root>>
           \/ /\ ~(c < 0)
              /\ ~(searchNode(heap, root, eventKey) = NULL)
              /\ validateSeat(seat)
              /\ searchNode(heap, root, key) = NULL => HasFreeCell(heap)
              /\ \E who \in HoldersFor(seat) :
                    LET newTicket == NewTicket(c, seat, who)
                        r == insertNode(heap, root, key, TICKET_NODE, newTicket)
                    IN  /\ heap' = r.h
                        /\ root' = r.ret
                        /\ out' = [Out("addTicket", c, seat, key, "Issued", 0, <<>>)
                                   EXCEPT !.given = Given(TICKET_NODE, newTicket)]
    /\ pc' = "returned"
    /\ UNCHANGED locals

addTicket(c, seat) ==
    /\ pc = "menu"
    /\ LET eventKey == EventKey(c)
           key == TicketKey(c, seat)
       IN  \/ /\ c < 0
              /\ out' = Out("addTicket", c, <<>>, <<>>, "InvalidCode", 0, <<>>)
              /\ UNCHANGED <<heap, root>>
           \/ /\ ~(c < 0)
              /\ searchNode(heap, root, eventKey) = NULL
              /\ out' = Out("addTicket", c, <<>>, <<>>, "UnknownEvent", 0, <<>>)
              /\ UNCHANGED <<heap, root>>
           \/ /\ ~(c < 0)
              /\ ~(searchNode(heap, root, eventKey) = NULL)
              /\ ~validateSeat(seat)
              /\ out' = Out("addTicket", c, seat, <<>>, "InvalidSeat", 0, <<>>)
              /\ UNCHANGED <<heap, root>>
           \/ /\ ~(c < 0)
              /\ ~(searchNode(heap, root, eventKey) = NULL)
              /\ validateSeat(seat)
              /\ searchNode(heap, root, key) # NULL
              /\ out' = Out("addTicket", c, seat, key, "SeatTaken", 0, <<>>)
              /\ UNCHANGED <<heap, root>>
           \/ /\ ~(c < 0)
              /\ ~(searchNode(heap, root, eventKey) = NULL)
              /\ validateSeat(seat)
              /\ ~(searchNode(heap, root, key) # NULL)
              /\ HasFreeCell(heap)
              /\ \E who \in HoldersFor(seat) :
                    LET newTicket == NewTicket(c, seat, who)
                        r == insertNode(heap, root, key, TICKET_NODE, newTicket)
                    IN  /\ heap' = r.h
                        /\ root' = r.ret
                        /\ out' = [Out("addTicket", c, seat, key, "Issued", 0, <<>>)
                                   EXCEPT !.given = Given(TICKET_NODE, newTicket)]
    /\ pc' = "returned"
    /\ UNCHANGED locals

findTicket(c, seat) ==
    /\ pc = "menu"
    /\ LET key == TicketKey(c, seat)
           result == searchNode(heap, root, key)
       IN  IF c < 0
           THEN out' = Out("findTicket", c, <<>>, <<>>, "InvalidCode", 0, <<>>)
           ELSE IF result # NULL
           THEN out' = Out("findTicket", c, seat, key, "Found", 0,
                           inorderTraversalPrint(heap, result, TICKET_NODE, c))
           ELSE out' = Out("findTicket", c, seat, key, "NotFound", 0, <<>>)
    /\ pc' = "returned"
    /\ UNCHANGED <<heap, root, locals>>

printTicketsForEvent(c) ==
    /\ pc = "menu"
    /\ LET eventKey == EventKey(c)
       IN  IF c < 0
           THEN out' = Out("printTicketsForEvent", c, <<>>, <<>>, "InvalidCode", 0, <<>>)
           ELSE IF searchNode(heap, root, eventKey) = NULL
           THEN out' = Out("printTicketsForEvent", c, <<>>, eventKey, "UnknownEvent", 0, <<>>)
           ELSE out' = Out("printTicketsForEvent", c, <<>>, eventKey, "Listed", 0,
                           inorderTraversalPrint(heap, root, TICKET_NODE, c))
    /\ pc' = "returned"
    /\ UNCHANGED <<heap, root, locals>>

\* ------------------------------------------------------------------------
\* main: choice 3, "Exit and Delete All Data"
\* ------------------------------------------------------------------------

exit ==
    /\ pc = "menu"
    /\ heap' = freeTree(heap, root)
    /\ root' = NULL
    /\ pc' = "exited"
    /\ out' = Out("exit", -1, <<>>, <<>>, "Terminated", 0, <<>>)
    /\ UNCHANGED locals

\* The do-while of eventMenu / ticketMenu: the handler has returned, the menu
\* is printed again and the next choice is awaited.
menuLoop ==
    /\ pc = "returned"
    /\ pc' = "menu"
    /\ entry' = [heap |-> heap, root |-> root]
    /\ out' = Out("menu", -1, <<>>, <<>>, "", 0, <<>>)
    /\ UNCHANGED <<heap, root, code, keysToDelete, count, capacity, i>>

Next ==
    \/ menuLoop
    \/ \E c \in CodeInputs : addEvent(c)
    \/ \E c \in CodeInputs : findEvent(c)
    \/ \E c \in CodeInputs : removeEvent(c)
    \/ removeEvent_ticket
    \/ removeEvent_event
    \/ printEvents
    \/ \E c \in CodeInputs, seat \in SeatInputs : addTicket(c, seat)
    \/ \E c \in CodeInputs, seat \in SeatInputs : findTicket(c, seat)
    \/ \E c \in CodeInputs : printTicketsForEvent(c)
    \/ exit

Spec == Init /\ [][Next]_vars

\* ------------------------------------------------------------------------
\* The index on its own: insertNode, searchNode and deleteNode called with
\* arbitrary keys, as a client of the tree functions may call them
\* ------------------------------------------------------------------------

\* (key, tag, payload) triples offered to insertNode.  The key "E_9" comes with
\* two event payloads and also with a ticket payload under the ticket tag.
IndexInputs ==
    {[key |-> EventKey(9), type |-> EVENT_NODE,
      data |-> NewEvent(9, [title |-> "Yoga", date |-> "01/01/2025", time |-> "10:00"])],
     [key |-> EventKey(9), type |-> EVENT_NODE,
      data |-> NewEvent(9, [title |-> "Boxing", date |-> "15/06/2025", time |-> "18:30"])],
     [key |-> EventKey(9), type |-> TICKET_NODE,
      data |-> NewTicket(9, Seat_B2, [afm |-> "123456789", firstName |-> "Ann", lastName |-> "Lee"])],
     [key |-> EventKey(10), type |-> EVENT_NODE,
      data |-> NewEvent(10, [title |-> "Yoga", date |-> "01/01/2025", time |-> "10:00"])],
     [key |-> EventKey(1), type |-> EVENT_NODE,
      data |-> NewEvent(1, [title |-> "Yoga", date |-> "01/01/2025", time |-> "10:00"])],
     [key |-> TicketKey(9, Seat_c149), type |-> TICKET_NODE,
      data |-> NewTicket(9, Seat_c149, [afm |-> "123456789", firstName |-> "Ann", lastName |-> "Lee"])],
     [key |-> TicketKey(10, Seat_B2), type |-> TICKET_NODE,
      data |-> NewTicket(10, Seat_B2, [afm |-> "123456789", firstName |-> "Ann", lastName |-> "Lee"])]}

IndexKeys == {in.key : in \in IndexInputs}

\* root = insertNode(root, key, type, &data)
Call_insertNode(in) ==
    /\ pc = "menu"
    /\ searchNode(heap, root, in.key) = NULL => HasFreeCell(heap)
    /\ LET r == insertNode(heap, root, in.key, in.type, in.data)
       IN  /\ heap' = r.h
           /\ root' = r.ret
    /\ out' = [Out("insertNode", -1, <<>>, in.key, "", 0, <<>>)
               EXCEPT !.given = Given(in.type, in.data)]
    /\ pc' = "returned"
    /\ UNCHANGED locals

\* root = deleteNode(root, key)
Call_deleteNode(key) ==
    /\ pc = "menu"
    /\ LET r == deleteNode(heap, root, key)
       IN  /\ heap' = r.h
           /\ root' = r.ret
    /\ out' = Out("deleteNode", -1, <<>>, key, "", 0, <<>>)
    /\ pc' = "returned"
    /\ UNCHANGED locals

\* result = searchNode(root, key)
Call_searchNode(key) ==
    /\ pc = "menu"
    /\ LET result == searchNode(heap, root, key)
       IN  out' = IF result # NULL
                  THEN Out("searchNode", -1, <<>>, key, "Found", 0, <<PrintedRecord(heap, result)>>)
                  ELSE Out("searchNode", -1, <<>>, key, "NotFound", 0, <<>>)
    /\ pc' = "returned"
    /\ UNCHANGED <<heap, root, locals>>

\* The client is ready for its next call.
nextCall ==
    /\ pc = "returned"
    /\ pc' = "menu"
    /\ entry' = [heap |-> heap, root |-> root]
    /\ out' = Out("menu", -1, <<>>, <<>>, "", 0, <<>>)
    /\ UNCHANGED <<heap, root, code, keysToDelete, count, capacity, i>>

NextIndex ==
    \/ \E in \in IndexInputs : Call_insertNode(in)
    \/ \E key \in IndexKeys : Call_deleteNode(key)
    \/ \E key \in IndexKeys : Call_searchNode(key)
    \/ nextCall

SpecIndex == Init /\ [][NextIndex]_vars

\* ------------------------------------------------------------------------
\* Vocabulary of the properties
\* ------------------------------------------------------------------------

\* The keys of a subtree in the order of an in-order traversal.
RECURSIVE InorderKeys(_, _)
InorderKeys(h, r) ==
    IF r = NULL THEN <<>>
    ELSE InorderKeys(h, h[r].left) \o <<h[r].key>> \o InorderKeys(h, h[r].right)

StrictlyAscending(keys) ==
    \A j \in 1..(Len(keys) - 1) : strcmp(keys[j], keys[j + 1]) < 0

\* Every node separates the keys of its two subtrees.
IsSearchTree(h, r) ==
    \A n \in NodesOf(h, r) :
        /\ \A m \in NodesOf(h, h[n].left) : strcmp(h[m].key, h[n].key) < 0
        /\ \A m \in NodesOf(h, h[n].right) : strcmp(h[m].key, h[n].key) > 0

KeysOf(h, r) == {h[n].key : n \in NodesOf(h, r)}

\* The tree as it was when the handler that has just returned was entered.
Before == Records(entry.heap, entry.root)
KeysBefore == KeysOf(entry.heap, entry.root)
TreeUnchanged == heap = entry.heap /\ root = entry.root

\* searchNode finds a node for the key of rec, and the node holds rec.
FoundWith(rec) ==
    LET n == searchNode(heap, root, rec.key)
    IN  n # NULL /\ RecordOf(heap, n) = rec

Returned(op) == pc = "returned" /\ out.op = op

\* The node that held the key when the handler was entered had two children.
HadTwoChildren(key) ==
    \E n \in NodesOf(entry.heap, entry.root) :
        /\ entry.heap[n].key = key
        /\ entry.heap[n].left # NULL
        /\ entry.heap[n].right # NULL

\* ------------------------------------------------------------------------
\* C1 -- BST invariant
\* ------------------------------------------------------------------------

\* C1: starting from the empty tree, after any sequence of insertNode and
\* deleteNode calls with arbitrary keys, the in-order traversal yields keys in
\* strictly ascending strcmp order; every node has only smaller keys in its
\* left subtree and only greater keys in its right subtree (so no key twice).
C1_BSTInvariant ==
    /\ StrictlyAscending(InorderKeys(heap, root))
    /\ IsSearchTree(heap, root)

\* A deleteNode call has removed a node that had two children, and at least
\* three keys are left.
C1_Witness ==
    /\ Returned("deleteNode")
    /\ HadTwoChildren(out.key)
    /\ Len(InorderKeys(heap, root)) >= 3

\* ------------------------------------------------------------------------
\* C3 -- deletion completeness
\* ------------------------------------------------------------------------

\* C3: after deleteNode(tree, k), searchNode(k) returns NULL and every other
\* key that was in the tree is still found by searchNode, with the tag and the
\* payload it had before the call.
C3_DeletionCompleteness ==
    Returned("deleteNode") =>
        /\ searchNode(heap, root, out.key) = NULL
        /\ \A rec \in Before : rec.key # out.key => FoundWith(rec)

\* A deleteNode call has removed a node with two children whose successor was
\* not its right child itself: findMin went down to the left.
C3_Witness ==
    /\ Returned("deleteNode")
    /\ \E n \in NodesOf(entry.heap, entry.root) :
           /\ entry.heap[n].key = out.key
           /\ entry.heap[n].left # NULL
           /\ entry.heap[n].right # NULL
           /\ entry.heap[entry.heap[n].right].left # NULL
    /\ searchNode(heap, root, out.key) = NULL

\* ------------------------------------------------------------------------
\* C4 -- uniqueness, first writer wins
\* ------------------------------------------------------------------------

\* C4: insertNode with a key that is already in the tree, with the same or a
\* different tag or payload, leaves the tree as it was: same cells and links,
\* one node with that key, holding the record of the first insert.
C4_FirstWriterWins ==
    Returned("insertNode") /\ out.key \in KeysBefore =>
        /\ TreeUnchanged
        /\ Cardinality({n \in NodesOf(heap, root) : heap[n].key = out.key}) = 1
        /\ \A rec \in Before : rec.key = out.key => FoundWith(rec)

\* insertNode was called with a key already in the tree and a record that
\* differs from the stored one in its tag.
C4_Witness ==
    /\ Returned("insertNode")
    /\ \E rec \in Before :
           /\ rec.key = out.key
           /\ rec.type # out.given[1].type
    /\ Cardinality(NodesOf(heap, root)) >= 2

\* ------------------------------------------------------------------------
\* C5 -- round trip
\* ------------------------------------------------------------------------

\* searchNode finds the key that insertNode was given, in a node holding the
\* tag and the payload that insertNode was given.
InsertedIsFound ==
    LET n == searchNode(heap, root, out.key)
    IN  /\ n # NULL
        /\ PrintedRecord(heap, n) = out.given[1]

\* C5 as stated: insert(key, record) followed by search(key) returns a record
\* equal to the one inserted, whatever the tree held before.
C5_RoundTrip_AsStated ==
    Returned("insertNode") => InsertedIsFound

\* C5 amended: insert(key, record) of a key that is not yet in the tree,
\* followed by search(key), returns a record equal to the one inserted; when
\* the key is already in the tree, search(key) returns the record stored first.
C5_RoundTrip ==
    Returned("insertNode") =>
        IF out.key \in KeysBefore
        THEN \A rec \in Before : rec.key = out.key => FoundWith(rec)
        ELSE InsertedIsFound

\* insertNode has added a ticket record under a new key, below other nodes.
C5_Witness ==
    /\ Returned("insertNode")
    /\ out.key \notin KeysBefore
    /\ out.given[1].type = TICKET_NODE
    /\ InsertedIsFound
    /\ searchNode(heap, root, out.key) # root

\* ------------------------------------------------------------------------
\* C2 -- cascading delete
\* ------------------------------------------------------------------------

IsTicketOf(rec, c) == rec.type = TICKET_NODE /\ rec.data.eventCode = c

\* C2: when removeEvent(E.code) has completed on a tree that held event E,
\* searchNode finds neither E's key nor the key of any ticket E had, no ticket
\* with eventCode = E.code is left anywhere in the tree, and every other event
\* and ticket is still found with its original payload.
C2_CascadingDelete ==
    Returned("removeEvent") /\ ~(out.code < 0) /\ EventKey(out.code) \in KeysBefore =>
        /\ out.msg = "Deleted"
        /\ searchNode(heap, root, EventKey(out.code)) = NULL
        /\ \A rec \in Before :
               IsTicketOf(rec, out.code) => searchNode(heap, root, rec.key) = NULL
        /\ \A n \in NodesOf(heap, root) : ~IsTicketOf(RecordOf(heap, n), out.code)
        /\ \A rec \in Before :
               rec.key # EventKey(out.code) /\ ~IsTicketOf(rec, out.code) => FoundWith(rec)

\* removeEvent has completed for an event that had a ticket and whose node had
\* two children, and a ticket of another event is still in the tree.
C2_Witness ==
    /\ Returned("removeEvent")
    /\ out.msg = "Deleted"
    /\ out.count >= 1
    /\ HadTwoChildren(EventKey(out.code))
    /\ \E n \in NodesOf(heap, root) : heap[n].type = TICKET_NODE

\* ------------------------------------------------------------------------
\* C6 -- referential precondition of addTicket
\* ------------------------------------------------------------------------

\* C6: addTicket with a (non-negative) eventCode whose event key is not in the
\* tree prints the unknown-event error and leaves the tree as it was, cell for
\* cell, whatever seat is typed.
C6_UnknownEvent ==
    Returned("addTicket") /\ ~(out.code < 0) /\ EventKey(out.code) \notin KeysBefore =>
        /\ out.msg = "UnknownEvent"
        /\ TreeUnchanged
        /\ Cardinality(NodesOf(heap, root)) = Cardinality(NodesOf(entry.heap, entry.root))
        /\ Records(heap, root) = Before

\* addTicket was refused for an unknown event while the tree held another
\* event with a ticket.
C6_Witness ==
    /\ Returned("addTicket")
    /\ out.msg = "UnknownEvent"
    /\ EventKey(out.code) \notin KeysBefore
    /\ \E n \in NodesOf(heap, root) : heap[n].type = TICKET_NODE

\* ------------------------------------------------------------------------
\* C7 -- DuplicateKey
\* ------------------------------------------------------------------------

\* C7: addEvent with a code whose event key is already in the tree prints the
\* duplicate error and leaves the tree as it was (the event keeps its title,
\* date and time); addEvent with a non-negative code not yet present succeeds
\* and the event is then found with the fields that were supplied.
C7_DuplicateKey ==
    Returned("addEvent") /\ ~(out.code < 0) =>
        IF EventKey(out.code) \in KeysBefore
        THEN /\ out.msg = "DuplicateKey"
             /\ TreeUnchanged
             /\ \A rec \in Before : rec.key = EventKey(out.code) => FoundWith(rec)
        ELSE /\ out.msg = "Added"
             /\ out.given # <<>>
             /\ out.given[1].type = EVENT_NODE
             /\ out.given[1].data.code = out.code
             /\ FoundWith([key |-> EventKey(out.code), type |-> EVENT_NODE,
                           data |-> out.given[1].data])

\* addEvent was refused as a duplicate in a tree of at least three records.
C7_Witness ==
    /\ Returned("addEvent")
    /\ out.msg = "DuplicateKey"
    /\ EventKey(out.code) \in KeysBefore
    /\ Cardinality(NodesOf(heap, root)) >= 3

\* ------------------------------------------------------------------------
\* C8 -- SeatTaken
\* ------------------------------------------------------------------------

\* A ticket for the seat string of the event was in the tree at entry.
Booked(c, seat) ==
    \E rec \in Before : IsTicketOf(rec, c) /\ rec.data.seat = seat

\* No two ticket nodes carry the same (eventCode, seat string) pair.
AtMostOneTicketPerSeat ==
    \A n, m \in NodesOf(heap, root) :
        /\ n # m
        /\ heap[n].type = TICKET_NODE
        /\ heap[m].type = TICKET_NODE
        => <<heap[n].data.eventCode, heap[n].data.seat>>
               # <<heap[m].data.eventCode, heap[m].data.seat>>

\* C8: where the event exists, addTicket for an (eventCode, seat) pair that is
\* already booked prints the seat-taken error and leaves the tree as it was
\* (the ticket keeps its holder); in every state there is at most one ticket
\* per (eventCode, seat) pair.
C8_SeatTaken ==
    /\ Returned("addTicket") /\ ~(out.code < 0) /\ EventKey(out.code) \in KeysBefore
           /\ Booked(out.code, out.seat) =>
           /\ out.msg = "SeatTaken"
           /\ TreeUnchanged
           /\ \A rec \in Before : rec.key = TicketKey(out.code, out.seat) => FoundWith(rec)
    /\ AtMostOneTicketPerSeat

\* addTicket was refused for a booked seat while the same event had another
\* ticket as well.
C8_Witness ==
    /\ Returned("addTicket")
    /\ out.msg = "SeatTaken"
    /\ Booked(out.code, out.seat)
    /\ \E rec \in Before : IsTicketOf(rec, out.code) /\ rec.data.seat # out.seat

\* ------------------------------------------------------------------------
\* The catalog over a tree into which a client has also put a ticket directly,
\* without the checks of addTicket: the ticket may belong to no event
\* ------------------------------------------------------------------------

OrphanInputs == {in \in IndexInputs : in.key = TicketKey(10, Seat_B2)}

NextOrphan ==
    \/ Next
    \/ \E in \in OrphanInputs : Call_insertNode(in)

SpecOrphan == Init /\ [][NextOrphan]_vars

\* ------------------------------------------------------------------------
\* C9 -- removeEvent and printTicketsForEvent of an unknown event
\* ------------------------------------------------------------------------

\* C9: removeEvent and printTicketsForEvent with a (non-negative) code whose
\* event key is not in the tree print the unknown-event error, list nothing
\* and leave the tree as it was; removeEvent does not enter its deletion loop
\* for such a code, so it deletes no ticket, also when tickets that carry the
\* code are in the tree.
C9_UnknownEventOnRemoveAndList ==
    /\ (Returned("removeEvent") \/ Returned("printTicketsForEvent"))
           /\ ~(out.code < 0) /\ EventKey(out.code) \notin KeysBefore =>
           /\ out.msg = "UnknownEvent"
           /\ out.printed = <<>>
           /\ TreeUnchanged
    /\ pc = "removeEvent" => EventKey(code) \in KeysBefore

\* removeEvent was refused for a code that has no event although a ticket
\* carrying that code is in the tree.
C9_Witness ==
    /\ Returned("removeEvent")
    /\ out.msg = "UnknownEvent"
    /\ EventKey(out.code) \notin KeysBefore
    /\ \E rec \in Before : IsTicketOf(rec, out.code)
    /\ \E n \in NodesOf(heap, root) : IsTicketOf(RecordOf(heap, n), out.code)

\* ------------------------------------------------------------------------
\* C10 -- findEvent and findTicket
\* ------------------------------------------------------------------------

\* What a direct search for the key would show: the one record with the key.
OnlyRecordWith(key) ==
    IF key \in KeysOf(heap, root)
    THEN /\ out.msg = "Found"
         /\ \E n \in NodesOf(heap, root) :
                heap[n].key = key /\ out.printed = <<PrintedRecord(heap, n)>>
    ELSE /\ out.msg = "NotFound"
         /\ out.printed = <<>>

\* C10: findEvent(code) and findTicket(eventCode, seat) show exactly the one
\* record whose key matches when the key is in the tree, and no other record
\* of the tree; they report not-found when it is absent; neither changes the
\* tree.
C10_FindShowsOneRecord ==
    /\ Returned("findEvent") /\ ~(out.code < 0) =>
           OnlyRecordWith(EventKey(out.code)) /\ TreeUnchanged
    /\ Returned("findTicket") /\ ~(out.code < 0) =>
           OnlyRecordWith(TicketKey(out.code, out.seat)) /\ TreeUnchanged

\* ------------------------------------------------------------------------
\* C11 -- printEvents and printTicketsForEvent
\* ------------------------------------------------------------------------

\* The nodes of the tree that carry an event, and those that carry a ticket
\* of event c.
EventNodes == {n \in NodesOf(heap, root) : heap[n].type = EVENT_NODE}
TicketNodesOf(c) ==
    {n \in NodesOf(heap, root) : IsTicketOf(RecordOf(heap, n), c)}

\* The number of nodes of S whose key precedes the key of n as text.
Rank(n, S) == Cardinality({m \in S : strcmp(heap[m].key, heap[n].key) < 0})

\* The output is the records of the nodes of S, one line per node, in the
\* ascending textual order of the nodes' keys.
EmitsInKeyOrder(S) ==
    /\ Len(out.printed) = Cardinality(S)
    /\ \A n \in S : out.printed[Rank(n, S) + 1] = PrintedRecord(heap, n)

\* C11: printEvents writes exactly the event records of the tree, each once,
\* and printTicketsForEvent(code), for an event that exists, writes exactly
\* the ticket records whose eventCode is code, each once; both write in
\* ascending textual order of the keys, and neither changes the tree.
C11_Enumeration ==
    /\ Returned("printEvents") => EmitsInKeyOrder(EventNodes) /\ TreeUnchanged
    /\ Returned("printTicketsForEvent") /\ out.msg = "Listed" =>
           EmitsInKeyOrder(TicketNodesOf(out.code)) /\ TreeUnchanged

\* Events 9 and 10 were listed, event 10 first as "E_10" precedes "E_9" as
\* text, while a ticket in the tree was left out of the list.
C11_Witness ==
    /\ Returned("printEvents")
    /\ Len(out.printed) = 2
    /\ out.printed[1].data.code = 10
    /\ out.printed[2].data.code = 9
    /\ \E n \in NodesOf(heap, root) : heap[n].type = TICKET_NODE

\* ------------------------------------------------------------------------
\* C12 -- the keys of events and tickets
\* ------------------------------------------------------------------------

\* Codes and seats the key formats are applied to: codes of one, two and
\* three digits, and seats validateSeat accepts, one of them with the
\* separator character in it.
MaxCode == 110
KeyCodes == 0..MaxCode
Seat_a1 == <<97, 49>>
Seat_a10 == <<97, 49, 48>>
Seat_b2 == <<98, 50>>
Seat_a1_1 == <<97, 49, 95, 49>>
KeySeats == {Seat_a1, Seat_a10, Seat_b2, Seat_B2, Seat_c149, Seat_a1_1}

\* addEvent: sprintf(key, "E_%d", code)
sprintf_eventKey(c) ==
    /\ pc = "menu"
    /\ out' = Out("sprintf_eventKey", c, <<>>, EventKey(c), "", 0, <<>>)
    /\ pc' = "returned"
    /\ UNCHANGED <<heap, root, locals>>

\* addTicket: sprintf(ticketKey, "T_%d_%s", eventCode, seat), reached for a
\* seat that validateSeat accepted.
sprintf_ticketKey(c, seat) ==
    /\ pc = "menu"
    /\ validateSeat(seat)
    /\ out' = Out("sprintf_ticketKey", c, seat, TicketKey(c, seat), "", 0, <<>>)
    /\ pc' = "returned"
    /\ UNCHANGED <<heap, root, locals>>

NextKeys ==
    \/ menuLoop
    \/ \E c \in KeyCodes : sprintf_eventKey(c)
    \/ \E c \in KeyCodes, seat \in KeySeats : sprintf_ticketKey(c, seat)

SpecKeys == Init /\ [][NextKeys]_vars

\* C12: the key made for an event code is the key of no other event code and
\* of no ticket, and the key made for an (eventCode, seat) pair is the key of
\* no other pair and of no event: two different records never get the same
\* key.
C12_KeysInjective ==
    /\ Returned("sprintf_eventKey") =>
           /\ \A c2 \in KeyCodes : EventKey(c2) = out.key <=> c2 = out.code
           /\ \A c2 \in KeyCodes, s2 \in KeySeats : TicketKey(c2, s2) # out.key
    /\ Returned("sprintf_ticketKey") =>
           /\ \A c2 \in KeyCodes, s2 \in KeySeats :
                  TicketKey(c2, s2) = out.key <=> (c2 = out.code /\ s2 = out.seat)
           /\ \A c2 \in KeyCodes : EventKey(c2) # out.key

\* The key of a ticket of event 1 for the seat "a1_1" was made: its text
\* after "T_" has two separators.
C12_Witness ==
    /\ Returned("sprintf_ticketKey")
    /\ out.code = 1
    /\ out.seat = Seat_a1_1
    /\ out.key = <<Ch.T, Ch.us>> \o <<49>> \o <<Ch.us>> \o Seat_a1_1

\* ------------------------------------------------------------------------
\* C13 -- the three phases of removeEvent
\* ------------------------------------------------------------------------

\* The loop and the last step of removeEvent are straight-line code with no
\* input in between: once begun they are run.
SpecLive == Spec /\ WF_vars(removeEvent_ticket) /\ WF_vars(removeEvent_event)

\* The keys collected by removeEvent, as a set.
Collected == {keysToDelete[j] : j \in 1..Len(keysToDelete)}

\* Inside removeEvent: the event is still in the tree; before the first
\* deletion the tree is as at entry and the collected keys are the keys of
\* all tickets of the event; later the first i collected keys are gone and
\* the others are still there.
InsideRemoveEvent ==
    pc = "removeEvent" =>
        /\ EventKey(code) \in KeysOf(heap, root)
        /\ Len(keysToDelete) = count
        /\ i <= count
        /\ i = 0 =>
               /\ TreeUnchanged
               /\ Collected = {heap[n].key : n \in TicketNodesOf(code)}
        /\ \A j \in 1..count :
               keysToDelete[j] \in KeysOf(heap, root) <=> j > i

\* A step taken inside removeEvent deletes the next collected ticket, or,
\* when no collected ticket is left in the tree, deletes the event and
\* returns.
StepOfRemoveEvent ==
    pc = "removeEvent" =>
        \/ /\ i < count
           /\ pc' = "removeEvent"
           /\ i' = i + 1
           /\ KeysOf(heap', root') = KeysOf(heap, root) \ {keysToDelete[i + 1]}
        \/ /\ i = count
           /\ Collected \cap KeysOf(heap, root) = {}
           /\ pc' = "returned"
           /\ out'.msg = "Deleted"
           /\ KeysOf(heap', root') = KeysOf(heap, root) \ {EventKey(code)}

\* C13: inside removeEvent of an existing event the ticket keys are all
\* collected, with the tree untouched, before the first deletion; every
\* collected ticket is deleted before the event is; and once removeEvent has
\* begun to delete it goes on until the event is deleted and it returns.
C13_PhaseOrder ==
    /\ []InsideRemoveEvent
    /\ [][StepOfRemoveEvent]_vars
    /\ (pc = "removeEvent") ~> (Returned("removeEvent") /\ out.msg = "Deleted")

\* removeEvent has deleted the first of two collected tickets: one is gone,
\* the other and the event are still in the tree.
C13_Witness ==
    /\ pc = "removeEvent"
    /\ count = 2
    /\ i = 1
    /\ keysToDelete[1] \notin KeysOf(heap, root)
    /\ keysToDelete[2] \in KeysOf(heap, root)
    /\ EventKey(code) \in KeysOf(heap, root)

\* ------------------------------------------------------------------------
\* C14 -- deletion of a node with two children
\* ------------------------------------------------------------------------

\* The node of the smallest key among the nodes S of the tree at entry.
MinKeyNode(S) ==
    CHOOSE m \in S :
        \A k \in S \ {m} : strcmp(entry.heap[m].key, entry.heap[k].key) < 0

\* A sequence of keys without one key.
WithoutKey(keys, key) == SelectSeq(keys, LAMBDA k : k # key)

\* The cells in use.
Allocated(h) == {n \in DOMAIN h : IsAllocated(h, n)}

\* C14: when deleteNode removes a key whose node has two children, the node
\* stays where it is and gets the key, the tag and the payload of the node of
\* the smallest key of its right subtree; that node, which had no left child,
\* is the one node freed; the in-order key sequence afterwards is the one
\* before without the deleted key.
C14_TwoChildDeletion ==
    Returned("deleteNode") =>
        \A n \in NodesOf(entry.heap, entry.root) :
            /\ entry.heap[n].key = out.key
            /\ entry.heap[n].left # NULL
            /\ entry.heap[n].right # NULL
            => LET s == MinKeyNode(NodesOf(entry.heap, entry.heap[n].right))
               IN  /\ RecordOf(heap, n) = RecordOf(entry.heap, s)
                   /\ heap[n].left = entry.heap[n].left
                   /\ root = entry.root
                   /\ entry.heap[s].left = NULL
                   /\ Allocated(entry.heap) \ Allocated(heap) = {s}
                   /\ heap[s] = FreeCell
                   /\ InorderKeys(heap, root)
                          = WithoutKey(InorderKeys(entry.heap, entry.root), out.key)

\* The root, an event with two children, was deleted: the root node now
\* holds a ticket, the smallest key of what was its right subtree.
C14_Witness ==
    /\ Returned("deleteNode")
    /\ HadTwoChildren(out.key)
    /\ entry.heap[entry.root].key = out.key
    /\ entry.heap[entry.root].type = EVENT_NODE
    /\ root = entry.root
    /\ heap[root].type = TICKET_NODE
    /\ entry.heap[entry.heap[entry.root].right].left # NULL

\* ------------------------------------------------------------------------
\* C15 -- collectTicketKeysForEvent on an event with many tickets
\* ------------------------------------------------------------------------

\* Event 9 is booked for up to MaxSeats seats, more than the 10 keys the
\* array of removeEvent holds at first. The seats are booked one after the
\* other in a fixed order that is neither ascending nor descending: a7, a1,
\* a8, a2, a9, a3, a10, a4, a11, a5, a12, ... Event 10 and its one ticket are
\* entered while event 9 is not in the tree. Either event is removed at any
\* time.
MaxSeats == 11
CollectCells == 1..(MaxSeats + 3)
CollectSeat(k) == <<Ch.a>> \o FormatInt((k * 7) % 13)
CollectCodes == {9, 10}

\* The number of tickets of event c in the tree.
TicketsBooked(c) ==
    Cardinality({n \in NodesOf(heap, root) :
                    heap[n].type = TICKET_NODE /\ heap[n].data.eventCode = c})

\* TreeNode *root = NULL, in a memory with room for all these records.
InitCollect ==
    /\ heap = [n \in CollectCells |-> FreeCell]
    /\ root = NULL
    /\ pc = "menu"
    /\ code = -1
    /\ keysToDelete = <<>>
    /\ count = 0
    /\ capacity = 0
    /\ i = 0
    /\ entry = [heap |-> [n \in CollectCells |-> FreeCell], root |-> NULL]
    /\ out = Out("menu", -1, <<>>, <<>>, "", 0, <<>>)

NextCollect ==
    \/ menuLoop
    \/ addEvent(9)
    \/ TicketsBooked(9) < MaxSeats /\ addTicket(9, CollectSeat(TicketsBooked(9) + 1))
    \/ searchNode(heap, root, EventKey(9)) = NULL /\ addEvent(10)
    \/ searchNode(heap, root, EventKey(9)) = NULL /\ addTicket(10, Seat_B2)
    \/ \E c \in CollectCodes : removeEvent(c)
    \/ removeEvent_ticket
    \/ removeEvent_event

SpecCollect == InitCollect /\ [][NextCollect]_vars

\* C15: when removeEvent has called collectTicketKeysForEvent, the collected
\* keys are exactly the keys of the ticket nodes whose eventCode is the code,
\* each once, in ascending textual order, also when they are more than the
\* 10 the array held at first; the count does not exceed the capacity, which
\* is 10 or, for more than 10 keys, 20; the tree is not changed.
C15_CollectedKeys ==
    pc = "removeEvent" /\ i = 0 =>
        LET S == TicketNodesOf(code)
        IN  /\ count = Cardinality(S)
            /\ Len(keysToDelete) = count
            /\ \A n \in S : keysToDelete[Rank(n, S) + 1] = heap[n].key
            /\ count <= capacity
            /\ capacity = (IF count > 10 THEN 20 ELSE 10)
            /\ TreeUnchanged

\* The keys of 11 tickets of event 9 were collected, the array was enlarged
\* to 20, and the ticket of event 10 in the tree was not collected.
C15_Witness ==
    /\ pc = "removeEvent"
    /\ i = 0
    /\ code = 9
    /\ count = 11
    /\ capacity = 20
    /\ TicketsBooked(10) = 1

\* ------------------------------------------------------------------------
\* C16 -- what insertNode leaves alone
\* ------------------------------------------------------------------------

\* The links of the tree at entry that were null and now point to cell n.
LinksSetTo(n) ==
    {m \in NodesOf(entry.heap, entry.root) :
        \/ entry.heap[m].left = NULL /\ heap[m].left = n
        \/ entry.heap[m].right = NULL /\ heap[m].right = n}

\* Node m is as it was at entry, but for a null link that now points to n.
KeptButNullLinkTo(m, n) ==
    /\ RecordOf(heap, m) = RecordOf(entry.heap, m)
    /\ heap[m].left = entry.heap[m].left
           \/ (entry.heap[m].left = NULL /\ heap[m].left = n)
    /\ heap[m].right = entry.heap[m].right
           \/ (entry.heap[m].right = NULL /\ heap[m].right = n)

\* C16: insertNode of a key that is not in the tree adds exactly one node, a
\* leaf with the given key, tag and payload, at a null link found by going
\* down by key comparison; every node that was there keeps its key, tag,
\* payload and both links, except that this one null link (or the root of
\* the empty tree) now points to the leaf; the keys are the old keys and the
\* new one.
C16_InsertFrame ==
    Returned("insertNode") /\ out.key \notin KeysBefore =>
        \E n \in DOMAIN heap :
            /\ entry.heap[n] = FreeCell
            /\ heap[n] = [key |-> out.key, type |-> out.given[1].type,
                          data |-> out.given[1].data, left |-> NULL, right |-> NULL]
            /\ \A m \in DOMAIN heap \ {n} :
                   IF m \in NodesOf(entry.heap, entry.root)
                   THEN KeptButNullLinkTo(m, n)
                   ELSE heap[m] = entry.heap[m]
            /\ IF entry.root = NULL
               THEN root = n
               ELSE /\ root = entry.root
                    /\ Cardinality(LinksSetTo(n)) = 1
                    /\ \A m \in LinksSetTo(n) :
                           heap[m].left = entry.heap[m].left
                               \/ heap[m].right = entry.heap[m].right
            /\ NodesOf(heap, root) = NodesOf(entry.heap, entry.root) \cup {n}
            /\ KeysOf(heap, root) = KeysBefore \cup {out.key}
            /\ searchNode(heap, root, out.key) = n

\* A key was inserted below a node that is not the root: the new leaf hangs
\* on a node of the second level, and the root kept both its links.
C16_Witness ==
    /\ Returned("insertNode")
    /\ out.key \notin KeysBefore
    /\ entry.root # NULL
    /\ heap[root].left = entry.heap[root].left
    /\ heap[root].right = entry.heap[root].right
    /\ Cardinality(NodesOf(heap, root)) = Cardinality(NodesOf(entry.heap, entry.root)) + 1

\* ------------------------------------------------------------------------
\* C17 -- deleteNode of a key that is not there
\* ------------------------------------------------------------------------

\* C17: deleteNode with a key that is not in the tree changes nothing: the
\* root, every node with its key, tag, payload and links, and the cells in
\* use are as before the call; this holds for the empty tree too.
C17_DeleteAbsentKey ==
    Returned("deleteNode") /\ out.key \notin KeysBefore =>
        /\ TreeUnchanged
        /\ Allocated(heap) = Allocated(entry.heap)
        /\ \A n \in DOMAIN heap : heap[n].type # "DOUBLE_FREED"

\* deleteNode was called with a key that is not in a tree of three nodes or
\* more, whose search passes a node with two children.
C17_Witness ==
    /\ Returned("deleteNode")
    /\ out.key \notin KeysBefore
    /\ Cardinality(NodesOf(entry.heap, entry.root)) >= 3
    /\ entry.heap[entry.root].left # NULL
    /\ entry.heap[entry.root].right # NULL
    /\ TreeUnchanged

\* ------------------------------------------------------------------------
\* C18 -- every node is freed once
\* ------------------------------------------------------------------------

\* C18: in every state of a run of the catalog the cells in use are exactly
\* the nodes reachable from the root (no node is lost while in use, no freed
\* node is still in the tree); no cell was freed twice; removeEvent frees one
\* cell for every key it deletes and addEvent/addTicket take one; after exit
\* the root is NULL and no cell is in use.
C18_NodeOwnership ==
    /\ Allocated(heap) = NodesOf(heap, root)
    /\ \A n \in DOMAIN heap : heap[n].type # "DOUBLE_FREED"
    /\ pc = "removeEvent" =>
           Cardinality(Allocated(entry.heap) \ Allocated(heap)) = i
    /\ Returned("removeEvent") /\ out.msg = "Deleted" =>
           /\ Allocated(heap) \subseteq Allocated(entry.heap)
           /\ Cardinality(Allocated(entry.heap) \ Allocated(heap)) = out.count + 1
    /\ (Returned("addEvent") /\ out.msg = "Added")
         \/ (Returned("addTicket") /\ out.msg = "Issued") =>
           /\ Allocated(entry.heap) \subseteq Allocated(heap)
           /\ Cardinality(Allocated(heap) \ Allocated(entry.heap)) = 1
    /\ pc = "exited" =>
           /\ root = NULL
           /\ \A n \in DOMAIN heap : heap[n] = FreeCell

\* The program has exited from a tree whose root had two children: all of
\* its nodes were freed by freeTree.
C18_Witness ==
    /\ pc = "exited"
    /\ entry.root # NULL
    /\ entry.heap[entry.root].left # NULL
    /\ entry.heap[entry.root].right # NULL
    /\ Allocated(heap) = {}

\* ------------------------------------------------------------------------
\* C19 -- the key of a node is the key of its payload
\* ------------------------------------------------------------------------

\* C19: in every state of the catalog every node tagged as event has the key
\* "E_" + its code, every node tagged as ticket has the key "T_" + its
\* eventCode + "_" + its seat, and every stored code is not negative (so the
\* -1 that means "no filter" is the code of no record); this holds after the
\* deletions that copy a successor into a node as well.
C19_KeyMatchesPayload ==
    \A n \in NodesOf(heap, root) :
        \/ /\ heap[n].type = EVENT_NODE
           /\ heap[n].data.code >= 0
           /\ heap[n].key = EventKey(heap[n].data.code)
        \/ /\ heap[n].type = TICKET_NODE
           /\ heap[n].data.eventCode >= 0
           /\ heap[n].key = TicketKey(heap[n].data.eventCode, heap[n].data.seat)

\* removeEvent has returned and a cell that held an event at entry now holds
\* a ticket: the event had two children and its successor was copied in.
C19_Witness ==
    /\ Returned("removeEvent")
    /\ out.msg = "Deleted"
    /\ \E n \in NodesOf(heap, root) :
           /\ entry.heap[n].type = EVENT_NODE
           /\ heap[n].type = TICKET_NODE

\* ------------------------------------------------------------------------
\* C20 -- no ticket without its event
\* ------------------------------------------------------------------------

\* C20: in every state of the catalog, the states inside removeEvent between
\* two deletions included, every ticket in the tree has the eventCode of an
\* event that is in the tree.
C20_NoOrphanTicket ==
    LET nodes == NodesOf(heap, root)
    IN  \A n \in nodes :
            heap[n].type = TICKET_NODE =>
                \E e \in nodes :
                    /\ heap[e].type = EVENT_NODE
                    /\ heap[e].data.code = heap[n].data.eventCode

\* removeEvent has deleted one of the two tickets of its event; the other
\* ticket and two events are in the tree.
C20_Witness ==
    /\ pc = "removeEvent"
    /\ i = 1
    /\ count = 2
    /\ TicketsBooked(code) = 1
    /\ Cardinality(EventNodes) = 2

====
